---- MODULE Spec2Model ----
(***************************************************************************)
(* Net-dilution signal and backtest pipeline (trading/signals.py and       *)
(* trading/backtest.py).  A table (pandas DataFrame) is a record           *)
(*   [cols |-> set of column names, rows |-> sequence of row records].     *)
(* A float cell is an extended rational [n, d]: d > 0 is the finite value  *)
(* n/d in lowest terms, d = 0 is NaN (n = 0), +inf (n = 1) or -inf         *)
(* (n = -1).  Arithmetic is exact: float64 rounding and signed zeros are   *)
(* not modelled.                                                           *)
(*                                                                         *)
(* Three specifications, one per stage of the pipeline:                    *)
(*   SpecAgg      compute_ttm_sbc_and_repurchase                           *)
(*   SpecSignal   compute_market_cap, compute_net_dilution,                *)
(*                zscore_normalize_net_dilution, generate_signals          *)
(*   SpecBacktest calculate_strategy_returns, plot_performance_comparison  *)
(* Each starts from the tables a caller may pass to the stage's first      *)
(* function and applies the stage's functions in pipeline order.           *)
(***************************************************************************)
EXTENDS Integers, Sequences, FiniteSets, TLC

VARIABLES pc, df, arg_in, arg_out, err, long_entries, short_entries

vars == <<pc, df, arg_in, arg_out, err, long_entries, short_entries>>

(* ------------------------------ bounds --------------------------------- *)
MaxAggRows == 5
MaxSigRows == 3
MaxBtRows == 3
MaxPlotRows == 6

(* --------------------------- float cells ------------------------------- *)
Abs(x) == IF x < 0 THEN -x ELSE x

Sign(x) == IF x < 0 THEN -1 ELSE IF x > 0 THEN 1 ELSE 0

RECURSIVE GCD(_, _)
GCD(a, b) == IF b = 0 THEN a ELSE GCD(b, a % b)

NaN == [n |-> 0, d |-> 0]

Inf(s) == [n |-> s, d |-> 0]

Norm(n, d) ==
  IF d = 0 THEN [n |-> Sign(n), d |-> 0]
  ELSE LET g == GCD(Abs(n), Abs(d))
       IN  [n |-> (Sign(d) * n) \div g, d |-> Abs(d) \div g]

Num(i) == [n |-> i, d |-> 1]

Frac(a, b) == Norm(a, b)

isna(v) == v.d = 0 /\ v.n = 0

notna(v) == ~isna(v)

IsInf(v) == v.d = 0 /\ v.n # 0

IsFinite(v) == v.d > 0

FAdd(a, b) ==
  IF isna(a) \/ isna(b) THEN NaN
  ELSE IF IsInf(a) THEN (IF IsInf(b) /\ b.n # a.n THEN NaN ELSE a)
  ELSE IF IsInf(b) THEN b
  ELSE Norm(a.n * b.d + b.n * a.d, a.d * b.d)

FNeg(a) == [n |-> -a.n, d |-> a.d]

FSub(a, b) == FAdd(a, FNeg(b))

FMul(a, b) ==
  IF isna(a) \/ isna(b) THEN NaN
  ELSE IF IsInf(a) \/ IsInf(b)
       THEN (IF a.n = 0 \/ b.n = 0 THEN NaN ELSE Inf(Sign(a.n) * Sign(b.n)))
  ELSE Norm(a.n * b.n, a.d * b.d)

\* numpy true division: x/0 is +-inf, 0/0 and inf/inf are NaN
FDiv(a, b) ==
  IF isna(a) \/ isna(b) THEN NaN
  ELSE IF IsInf(a) THEN (IF IsInf(b) THEN NaN
                         ELSE Inf(IF b.n < 0 THEN -a.n ELSE a.n))
  ELSE IF IsInf(b) THEN Num(0)
  ELSE IF b.n = 0 THEN (IF a.n = 0 THEN NaN ELSE Inf(Sign(a.n)))
  ELSE Norm(a.n * b.d, a.d * b.n)

\* comparisons are false when either side is NaN
FLe(a, b) ==
  /\ notna(a) /\ notna(b)
  /\ IF IsInf(a) THEN (a.n = -1 \/ a = b)
     ELSE IF IsInf(b) THEN b.n = 1
     ELSE a.n * b.d <= b.n * a.d

FLt(a, b) == FLe(a, b) /\ a # b

(* ------------------------------ tables --------------------------------- *)
NoTable == [cols |-> {}, rows |-> <<>>]

\* a column built row by row, as a sequence of evaluated cells
AsSeq(f) == SubSeq(f, 1, Len(f))

Col(t, name) == AsSeq([i \in 1..Len(t.rows) |-> t.rows[i][name]])

\* df[name] = vals : adds the column, or overwrites it
SetCol(t, name, vals) ==
  [cols |-> t.cols \cup {name},
   rows |-> AsSeq([i \in 1..Len(t.rows) |->
                     [c \in (DOMAIN t.rows[i]) \cup {name} |->
                        IF c = name THEN vals[i] ELSE t.rows[i][c]]])]

\* Series.shift(1): row i takes row i-1's value, row 1 takes the fill value
Shift1(vals, fill) ==
  AsSeq([i \in 1..Len(vals) |-> IF i = 1 THEN fill ELSE vals[i - 1]])

RECURSIVE InsertByKey(_, _, _)
InsertByKey(r, s, key) ==
  IF s = <<>> THEN <<r>>
  ELSE IF r[key] < Head(s)[key] THEN <<r>> \o s
  ELSE <<Head(s)>> \o InsertByKey(r, Tail(s), key)

RECURSIVE SortRows(_, _)
SortRows(s, key) ==
  IF s = <<>> THEN <<>>
  ELSE InsertByKey(Head(s), SortRows(Tail(s), key), key)

\* df.sort_values(key).reset_index(drop=True); the keys of a series are unique
sort_values(t, key) == [cols |-> t.cols, rows |-> SortRows(t.rows, key)]

(* ------------------------ input orders and dates ----------------------- *)
\* the orders in which a caller may hand over the rows: every rotation of
\* the chronological order, and the reverse chronological order
InputOrders(n) ==
  {[j \in 1..n |-> ((j + k - 1) % n) + 1] : k \in 0..(n - 1)}
    \cup {[j \in 1..n |-> n + 1 - j]}

\* period-end dates as day numbers, irregularly spaced: 1, 4, 9, 16, ...
DateOf(i) == i * i

(* ------------------ signals.py: feature aggregation -------------------- *)
RawRepurchase == {NaN, Num(0), Num(1)}

RawSBC == {NaN, Num(2)}

window == 4

min_periods == 4

RECURSIVE SumVals(_)
SumVals(s) == IF s = <<>> THEN Num(0) ELSE FAdd(Head(s), SumVals(Tail(s)))

\* a rolling sum that ignores min_periods: partial sums at the series start
\* and over windows with missing cells
RollingSumPartial(vals, w, m) ==
  [i \in 1..Len(vals) |->
     LET lo == IF i - w + 1 < 1 THEN 1 ELSE i - w + 1
     IN  SumVals(SelectSeq(SubSeq(vals, lo, i), notna))]

\* Series.rolling(window=w, min_periods=m).sum(): the window of row i is the
\* rows max(1, i-w+1)..i; NaN cells are skipped, and the result is NaN
\* unless at least m cells of the window are not NaN
RollingSum(vals, w, m) ==
  [i \in 1..Len(vals) |->
     LET lo   == IF i - w + 1 < 1 THEN 1 ELSE i - w + 1
         obs  == {k \in lo..i : notna(vals[k])}
         kept == SelectSeq(SubSeq(vals, lo, i), notna)
     IN  IF Cardinality(obs) >= m THEN SumVals(kept) ELSE NaN]

compute_ttm_sbc_and_repurchase(t) ==
  LET s  == sort_values(t, "date")
      s1 == SetCol(s, "share_repurchase_ttm",
                   RollingSum(Col(s, "Share Repurchase"), window, min_periods))
  IN  SetCol(s1, "cash_flow_sbc_ttm",
             RollingSum(Col(s, "Cash Flow SBC"), window, min_periods))

AggCols == {"date", "Share Repurchase", "Cash Flow SBC"}

AggInput(n, rep, sbc, ord) ==
  [cols |-> AggCols,
   rows |-> [j \in 1..n |->
               [c \in AggCols |->
                  IF c = "date" THEN DateOf(ord[j])
                  ELSE IF c = "Share Repurchase" THEN rep[ord[j]]
                  ELSE sbc[ord[j]]]]]

InitAgg ==
  /\ pc = "aggregate"
  /\ \E n \in 0..MaxAggRows :
       \E rep \in [1..n -> RawRepurchase], sbc \in [1..n -> RawSBC],
          ord \in InputOrders(n) :
         df = AggInput(n, rep, sbc, ord)
  /\ arg_in = NoTable
  /\ arg_out = NoTable
  /\ err = "none"
  /\ long_entries = <<>>
  /\ short_entries = <<>>

\* one call f(df): the caller's table is arg_in before the call and arg_out
\* after it, and df becomes the returned table
Call(result) ==
  /\ arg_in' = df
  /\ arg_out' = df
  /\ df' = result
  /\ UNCHANGED <<err, long_entries, short_entries>>

ComputeTTM ==
  /\ pc = "aggregate"
  /\ Call(compute_ttm_sbc_and_repurchase(df))
  /\ pc' = "aggregated"

NextAgg == ComputeTTM

SpecAgg == InitAgg /\ [][NextAgg]_vars

(* ------------------- signals.py: signal computation -------------------- *)
compute_market_cap(t) ==
  SetCol(t, "market_cap",
         [i \in 1..Len(t.rows) |->
            FMul(t.rows[i].shares_outstanding, t.rows[i].closing_price)])

compute_net_dilution(t) ==
  SetCol(t, "net_dilution",
         [i \in 1..Len(t.rows) |->
            FDiv(FSub(t.rows[i].cash_flow_sbc_ttm, t.rows[i].share_repurchase_ttm),
                 t.rows[i].market_cap)])

\* Series.mean(): NaN cells are skipped; NaN when no cell is left
SeriesMean(vals) ==
  LET kept == SelectSeq(vals, notna)
  IN  IF Len(kept) = 0 THEN NaN ELSE FDiv(SumVals(kept), Num(Len(kept)))

RECURSIVE SumSqDev(_, _)
SumSqDev(s, avg) ==
  IF s = <<>> THEN Num(0)
  ELSE FAdd(FMul(FSub(avg, Head(s)), FSub(avg, Head(s))), SumSqDev(Tail(s), avg))

\* Series.var(ddof=1): NaN cells are skipped; NaN with fewer than 2 cells
\* left; an infinite cell makes avg - cell NaN, and so the variance
SeriesVar(vals) ==
  LET kept == SelectSeq(vals, notna)
  IN  IF Len(kept) - 1 <= 0 THEN NaN
      ELSE FDiv(SumSqDev(kept, FDiv(SumVals(kept), Num(Len(kept)))),
                Num(Len(kept) - 1))

\* A square root is kept exact as [s, q], the number s * sqrt(q): s is its
\* sign and q its square (isna(q) for NaN).
RootNaN == [s |-> 0, q |-> NaN]

RootZero == [s |-> 0, q |-> Num(0)]

RootOf(v) == [s |-> Sign(v.n), q |-> FMul(v, v)]

Sqrt(v) == IF isna(v) \/ v.n < 0 THEN RootNaN ELSE [s |-> Sign(v.n), q |-> v]

\* Series.std() = sqrt(Series.var())
SeriesStd(vals) == Sqrt(SeriesVar(vals))

RootIsNaN(r) == isna(r.q)

\* x / r for a cell x and a root r that is neither NaN nor zero
DivByRoot(x, r) ==
  IF isna(x) THEN RootNaN
  ELSE [s |-> Sign(x.n) * r.s, q |-> FDiv(FMul(x, x), r.q)]

\* r <= t and r >= t for a root r and a cell t; false when r is NaN
RootLe(r, t) ==
  /\ ~RootIsNaN(r)
  /\ \/ r.s < Sign(t.n)
     \/ r.s = Sign(t.n) /\ r.s = 0
     \/ r.s = Sign(t.n) /\ r.s = 1 /\ FLe(r.q, FMul(t, t))
     \/ r.s = Sign(t.n) /\ r.s = -1 /\ FLe(FMul(t, t), r.q)

RootGe(r, t) ==
  /\ ~RootIsNaN(r)
  /\ \/ r.s > Sign(t.n)
     \/ r.s = Sign(t.n) /\ r.s = 0
     \/ r.s = Sign(t.n) /\ r.s = 1 /\ FLe(FMul(t, t), r.q)
     \/ r.s = Sign(t.n) /\ r.s = -1 /\ FLe(r.q, FMul(t, t))

\* a normalisation without the zero-or-undefined-std branch: every row is
\* divided by std, whatever std is
ZscoreAlwaysDivides(t) ==
  LET vals == Col(t, "net_dilution")
      mean == SeriesMean(vals)
      std  == SeriesStd(vals)
  IN  SetCol(t, "normalized_net_dilution",
             [i \in 1..Len(t.rows) |-> DivByRoot(FSub(vals[i], mean), std)])

zscore_normalize_net_dilution(t) ==
  LET vals == Col(t, "net_dilution")
      mean == SeriesMean(vals)
      std  == SeriesStd(vals)
  IN  IF RootIsNaN(std) \/ std = RootZero
      THEN SetCol(t, "normalized_net_dilution",
                  [i \in 1..Len(t.rows) |-> RootZero])
      ELSE SetCol(t, "normalized_net_dilution",
                  [i \in 1..Len(t.rows) |-> DivByRoot(FSub(vals[i], mean), std)])

long_threshold == Frac(1, 20)

short_threshold == Frac(1, 4)

\* the long mask compared strictly
LongMaskStrict(r) ==
  /\ notna(r.net_dilution)
  /\ RootLe(r.normalized_net_dilution, long_threshold)
  /\ r.normalized_net_dilution # RootOf(long_threshold)

\* the long mask without the net_dilution.notna() conjunct
LongMaskNoNotna(r) == RootLe(r.normalized_net_dilution, long_threshold)

LongMask(r) ==
  notna(r.net_dilution) /\ RootLe(r.normalized_net_dilution, long_threshold)

ShortMask(r) ==
  notna(r.net_dilution) /\ RootGe(r.normalized_net_dilution, short_threshold)

\* position = 0, then 1 where the long mask holds, then -1 where the short
\* mask holds
generate_signals(t) ==
  SetCol(t, "position",
         [i \in 1..Len(t.rows) |->
            LET p0 == 0
                p1 == IF LongMask(t.rows[i]) THEN 1 ELSE p0
            IN  IF ShortMask(t.rows[i]) THEN -1 ELSE p1])

SigCols == {"date", "cash_flow_sbc_ttm", "share_repurchase_ttm",
            "shares_outstanding", "closing_price"}

SigSBC == {NaN, Num(0), Num(2)}

SigRepurchase == {NaN, Num(1)}

SigShares == {NaN, Num(0), Num(1), Num(2)}

SigPrice == {Num(2)}

SigInput(n, sbc, rep, sh, cp) ==
  [cols |-> SigCols,
   rows |-> [j \in 1..n |->
               [c \in SigCols |->
                  IF c = "date" THEN j
                  ELSE IF c = "cash_flow_sbc_ttm" THEN sbc[j]
                  ELSE IF c = "share_repurchase_ttm" THEN rep[j]
                  ELSE IF c = "shares_outstanding" THEN sh[j]
                  ELSE cp[j]]]]

\* a seven-period net-dilution series with mean 44 and sample std 20: its
\* z-scores include exactly the long threshold (45), a value between the
\* thresholds (47) and exactly the short threshold (49)
ThresholdSeries == {<<45, 49, 47, 0, 52, 57, 58>>}

InitSignal ==
  /\ pc = "market_cap"
  /\ \/ \E n \in 0..MaxSigRows :
          \E sbc \in [1..n -> SigSBC], rep \in [1..n -> SigRepurchase],
             sh \in [1..n -> SigShares], cp \in [1..n -> SigPrice] :
            df = SigInput(n, sbc, rep, sh, cp)
     \/ \E x \in ThresholdSeries :
          df = SigInput(Len(x), [j \in 1..Len(x) |-> Num(x[j])],
                        [j \in 1..Len(x) |-> Num(0)],
                        [j \in 1..Len(x) |-> Num(1)],
                        [j \in 1..Len(x) |-> Num(1)])
  /\ arg_in = NoTable
  /\ arg_out = NoTable
  /\ err = "none"
  /\ long_entries = <<>>
  /\ short_entries = <<>>

ComputeMarketCap ==
  /\ pc = "market_cap"
  /\ Call(compute_market_cap(df))
  /\ pc' = "net_dilution"

ComputeNetDilution ==
  /\ pc = "net_dilution"
  /\ Call(compute_net_dilution(df))
  /\ pc' = "normalize"

ZscoreNormalize ==
  /\ pc = "normalize"
  /\ Call(zscore_normalize_net_dilution(df))
  /\ pc' = "signals"

GenerateSignals ==
  /\ pc = "signals"
  /\ Call(generate_signals(df))
  /\ pc' = "signalled"

NextSignal ==
  \/ ComputeMarketCap
  \/ ComputeNetDilution
  \/ ZscoreNormalize
  \/ GenerateSignals

SpecSignal == InitSignal /\ [][NextSignal]_vars

(* ------------------- backtest.py: backtest simulation ------------------ *)
\* df.dropna(subset=[name]): the rows whose cell in that column is not NaN
dropna(t, name) ==
  LET keep(r) == notna(r[name])
  IN  [cols |-> t.cols, rows |-> SelectSeq(t.rows, keep)]

\* Series.pct_change(): NaN on the first row, then vals[i] / vals[i-1] - 1
pct_change(vals) ==
  AsSeq([i \in 1..Len(vals) |->
           IF i = 1 THEN NaN ELSE FSub(FDiv(vals[i], vals[i - 1]), Num(1))])

\* Series.fillna(v)
fillna(vals, v) ==
  AsSeq([i \in 1..Len(vals) |-> IF isna(vals[i]) THEN v ELSE vals[i]])

RECURSIVE ProdVals(_)
ProdVals(s) == IF s = <<>> THEN Num(1) ELSE FMul(Head(s), ProdVals(Tail(s)))

\* Series.cumprod(): the running product, NaN cells skipped and left NaN
cumprod(vals) ==
  AsSeq([i \in 1..Len(vals) |->
           IF isna(vals[i]) THEN NaN
           ELSE ProdVals(SelectSeq(SubSeq(vals, 1, i), notna))])

OnePlus(vals) == AsSeq([i \in 1..Len(vals) |-> FAdd(Num(1), vals[i])])

MinusOne(vals) == AsSeq([i \in 1..Len(vals) |-> FSub(vals[i], Num(1))])

\* the position of the previous row scales the return
StrategyReturnLagged(position, price_return) ==
  AsSeq([i \in 1..Len(position) |->
           IF i = 1 THEN NaN ELSE FMul(Num(position[i - 1]), price_return[i])])

\* df['position'] * df['price_return']
StrategyReturn(position, price_return) ==
  AsSeq([i \in 1..Len(position) |-> FMul(Num(position[i]), price_return[i])])

\* the compounding without fillna(0)
CumulativeNoFill(returns) == MinusOne(cumprod(OnePlus(returns)))

\* the compounding without the final - 1
CumulativeNoMinusOne(returns) == cumprod(OnePlus(fillna(returns, Num(0))))

\* (1 + returns.fillna(0)).cumprod() - 1
CumulativeMarketReturn(returns) ==
  MinusOne(cumprod(OnePlus(fillna(returns, Num(0)))))

CumulativeStrategyReturn(returns) ==
  MinusOne(cumprod(OnePlus(fillna(returns, Num(0)))))

MissingColumns(t) == "closing_price" \notin t.cols \/ "position" \notin t.cols

\* the emptiness check left out
NoValidRowsNever(t) == FALSE

\* len(df) == 0 after the rows with a missing closing_price are dropped
NoValidRows(t) == Len(dropna(t, "closing_price").rows) = 0

\* the table calculate_strategy_returns returns when it does not raise
StrategyReturnsTable(t) ==
  LET s  == sort_values(dropna(t, "closing_price"), "date")
      pr == pct_change(Col(s, "closing_price"))
      sr == StrategyReturn(Col(s, "position"), pr)
      s1 == SetCol(s, "price_return", pr)
      s2 == SetCol(s1, "strategy_return", sr)
      s3 == SetCol(s2, "cumulative_market_return", CumulativeMarketReturn(pr))
  IN  SetCol(s3, "cumulative_strategy_return", CumulativeStrategyReturn(sr))

calculate_strategy_returns ==
  /\ arg_in' = df
  /\ arg_out' = df
  /\ UNCHANGED <<long_entries, short_entries>>
  /\ IF MissingColumns(df)
     THEN /\ err' = "ValueError: DataFrame must contain 'closing_price' and 'position' columns"
          /\ pc' = "backtest_raised"
          /\ df' = df
     ELSE IF NoValidRows(df)
     THEN /\ err' = "ValueError: No valid data rows found"
          /\ pc' = "backtest_raised"
          /\ df' = df
     ELSE /\ err' = err
          /\ pc' = "backtested"
          /\ df' = StrategyReturnsTable(df)

\* pd.to_datetime of a day number: the timestamp of that day's midnight
to_datetime(d) == d * 86400

\* the missing timestamp a shifted datetime column starts with
NaT == -1

\* df_sorted with position_shift, cumulative_strategy_return_prev and
\* date_dt_prev, and the 0-based index of each row
SortedWithShifts(t) ==
  LET s  == sort_values(t, "date_dt")
      s1 == SetCol(s, "position_shift",
                   Shift1([i \in 1..Len(s.rows) |-> Num(s.rows[i].position)], NaN))
      s2 == SetCol(s1, "cumulative_strategy_return_prev",
                   Shift1(Col(s, "cumulative_strategy_return"), NaN))
      s3 == SetCol(s2, "date_dt_prev", Shift1(Col(s, "date_dt"), NaT))
  IN  SetCol(s3, "index", [i \in 1..Len(s.rows) |-> i - 1])

\* the entry mask without the notna() conjunct
EntryMaskNoNotna(r, side) ==
  /\ r.position = side
  /\ r.position_shift # Num(side)

\* the entry mask of one row: position == side, position_shift != side, and
\* cumulative_strategy_return_prev.notna()
EntryMask(r, side) ==
  /\ r.position = side
  /\ r.position_shift # Num(side)
  /\ notna(r.cumulative_strategy_return_prev)

Entries(t, side) ==
  LET hit(r) == EntryMask(r, side)
  IN  SelectSeq(SortedWithShifts(t).rows, hit)

\* plot_performance_comparison(df, sp500_df, ticker_name), the benchmark
\* table given by its number of rows: date_dt is written into the caller's
\* table before the emptiness checks
plot_performance_comparison(sp500_rows) ==
  /\ arg_in' = df
  /\ arg_out' = SetCol(df, "date_dt",
                       [i \in 1..Len(df.rows) |-> to_datetime(df.rows[i].date)])
  /\ df' = arg_out'
  /\ IF Len(df.rows) = 0
     THEN /\ err' = "ValueError: No data to plot"
          /\ pc' = "plot_raised"
          /\ UNCHANGED <<long_entries, short_entries>>
     ELSE IF sp500_rows = 0
     THEN /\ err' = "ValueError: No S&P 500 data available for the date range"
          /\ pc' = "plot_raised"
          /\ UNCHANGED <<long_entries, short_entries>>
     ELSE /\ err' = err
          /\ pc' = "plotted"
          /\ long_entries' = Entries(arg_out', 1)
          /\ short_entries' = Entries(arg_out', -1)

BtPrices == {NaN, Num(100), Num(110)}

\* the closing prices of the compounding example
ExamplePrices == {<<100, 110, 99>>}

Positions == {-1, 0, 1}

BtColumnSets ==
  {{"date", "closing_price", "position"}, {"date", "position"},
   {"date", "closing_price"}}

BtInput(cols, n, cp, pos, ord) ==
  [cols |-> cols,
   rows |-> [j \in 1..n |->
               [c \in cols |->
                  IF c = "date" THEN ord[j]
                  ELSE IF c = "closing_price" THEN cp[ord[j]]
                  ELSE pos[ord[j]]]]]

\* the closing price of the longer series: 5, 6, 7, ... by period
PlotPrice(i) == Num(4 + i)

InitBacktest ==
  /\ pc = "backtest"
  /\ \/ \E n \in 0..MaxBtRows, cols \in BtColumnSets :
          \E cp \in [1..n -> BtPrices], pos \in [1..n -> Positions],
             ord \in InputOrders(n) :
            df = BtInput(cols, n, cp, pos, ord)
     \/ \E x \in ExamplePrices :
          \E pos \in [1..Len(x) -> Positions], ord \in InputOrders(Len(x)) :
            df = BtInput({"date", "closing_price", "position"}, Len(x),
                         [j \in 1..Len(x) |-> Num(x[j])], pos, ord)
     \/ \E n \in 0..MaxPlotRows :
          \E pos \in [1..n -> Positions], ord \in InputOrders(n) :
            df = BtInput({"date", "closing_price", "position"}, n,
                         [j \in 1..n |-> PlotPrice(j)], pos, ord)
  /\ arg_in = NoTable
  /\ arg_out = NoTable
  /\ err = "none"
  /\ long_entries = <<>>
  /\ short_entries = <<>>

CalculateStrategyReturns ==
  /\ pc = "backtest"
  /\ calculate_strategy_returns

PlotPerformanceComparison ==
  /\ pc = "backtested"
  /\ \E sp500_rows \in 0..1 : plot_performance_comparison(sp500_rows)

NextBacktest ==
  \/ CalculateStrategyReturns
  \/ PlotPerformanceComparison

SpecBacktest == InitBacktest /\ [][NextBacktest]_vars

(* ============================== claims ================================= *)
Rows == df.rows

NRows == Len(df.rows)

\* the returned rows are the rows of the call's argument, in ascending date
\* order
SortedCopyOfArg ==
  /\ NRows = Len(arg_in.rows)
  /\ \A i \in 1..(NRows - 1) : Rows[i].date < Rows[i + 1].date
  /\ \A i \in 1..NRows : \E j \in 1..NRows :
        \A c \in arg_in.cols : arg_in.rows[j][c] = Rows[i][c]

\* rows i-3..i all carry a raw value in column c
WindowComplete(i, c) == \A k \in (i - 3)..i : notna(Rows[k][c])

Sum4(i, c) ==
  FAdd(FAdd(FAdd(Rows[i - 3][c], Rows[i - 2][c]), Rows[i - 1][c]), Rows[i][c])

\* C1 (as stated): after the sort by date, rows 0-2 have undefined TTM
\* fields, and every later row has both TTM fields defined and equal to the
\* sum of the raw values of the four rows ending at it, whether or not raw
\* values are absent.
C1_AsClaimed ==
  pc = "aggregated" =>
    /\ SortedCopyOfArg
    /\ \A i \in 1..NRows :
         IF i <= 3
         THEN isna(Rows[i].share_repurchase_ttm) /\ isna(Rows[i].cash_flow_sbc_ttm)
         ELSE /\ notna(Rows[i].share_repurchase_ttm)
              /\ notna(Rows[i].cash_flow_sbc_ttm)
              /\ Rows[i].share_repurchase_ttm = Sum4(i, "Share Repurchase")
              /\ Rows[i].cash_flow_sbc_ttm = Sum4(i, "Cash Flow SBC")

TTMOk(i, ttm, raw) ==
  IF i <= 3 THEN isna(Rows[i][ttm])
  ELSE IF WindowComplete(i, raw)
       THEN notna(Rows[i][ttm]) /\ Rows[i][ttm] = Sum4(i, raw)
       ELSE isna(Rows[i][ttm])

\* C1 (amended): after the sort by date, rows 0-2 have undefined TTM fields;
\* a later row's TTM field is defined, and equals the sum of the raw values
\* of the four rows ending at it (by row count), exactly when all four raw
\* values are present, and is undefined when any of the four is absent.
C1_TTMWindow ==
  pc = "aggregated" =>
    /\ SortedCopyOfArg
    /\ \A i \in 1..NRows :
         /\ TTMOk(i, "share_repurchase_ttm", "Share Repurchase")
         /\ TTMOk(i, "cash_flow_sbc_ttm", "Cash Flow SBC")

\* an unsorted, irregularly spaced five-row input: row 3 has a full window
\* and a defined sum, row 4's window holds an absent repurchase value
C1_Witness ==
  /\ pc = "aggregated"
  /\ NRows = 5
  /\ arg_in.rows[1].date > arg_in.rows[2].date
  /\ Rows[5].date - Rows[4].date > 1
  /\ Rows[4].share_repurchase_ttm = Num(3)
  /\ Rows[4].cash_flow_sbc_ttm = Num(8)
  /\ isna(Rows[5]["Share Repurchase"])
  /\ isna(Rows[5].share_repurchase_ttm)
  /\ notna(Rows[5].cash_flow_sbc_ttm)

(* ---------------------------- C2 .. C5 --------------------------------- *)
HasNetDilution == pc \in {"normalize", "signals", "signalled"}

HasNormalized == pc \in {"signals", "signalled"}

\* C2: net_dilution is undefined whenever cash_flow_sbc_ttm,
\* share_repurchase_ttm or market_cap is undefined or market_cap is zero,
\* is never infinite, and every defined net_dilution equals
\* (cash_flow_sbc_ttm - share_repurchase_ttm) / market_cap.
C2_AsClaimed ==
  HasNetDilution =>
    \A i \in 1..NRows :
      /\ (\/ isna(Rows[i].cash_flow_sbc_ttm)
          \/ isna(Rows[i].share_repurchase_ttm)
          \/ isna(Rows[i].market_cap)
          \/ Rows[i].market_cap = Num(0)) => isna(Rows[i].net_dilution)
      /\ ~IsInf(Rows[i].net_dilution)
      /\ notna(Rows[i].net_dilution) =>
           FMul(Rows[i].net_dilution, Rows[i].market_cap)
             = FSub(Rows[i].cash_flow_sbc_ttm, Rows[i].share_repurchase_ttm)

\* what C2 says of the rows whose market_cap is not zero
C2_NonZeroMarketCap ==
  HasNetDilution =>
    \A i \in 1..NRows :
      Rows[i].market_cap # Num(0) =>
        /\ (\/ isna(Rows[i].cash_flow_sbc_ttm)
            \/ isna(Rows[i].share_repurchase_ttm)
            \/ isna(Rows[i].market_cap)) <=> isna(Rows[i].net_dilution)
        /\ IsFinite(Rows[i].net_dilution) \/ isna(Rows[i].net_dilution)
        /\ notna(Rows[i].net_dilution) =>
             FMul(Rows[i].net_dilution, Rows[i].market_cap)
               = FSub(Rows[i].cash_flow_sbc_ttm, Rows[i].share_repurchase_ttm)

DefinedND == {i \in 1..NRows : notna(Rows[i].net_dilution)}

RECURSIVE SumOver(_, _)
SumOver(S, f) ==
  IF S = {} THEN Num(0)
  ELSE LET i == CHOOSE x \in S : TRUE
       IN  FAdd(f[i], SumOver(S \ {i}, f))

NDVals == [i \in 1..NRows |-> Rows[i].net_dilution]

NDSquares == [i \in 1..NRows |-> FMul(Rows[i].net_dilution, Rows[i].net_dilution)]

\* mean and sample variance (Bessel's correction) of the defined rows, the
\* variance as (N * sum x^2 - (sum x)^2) / (N * (N - 1))
ClaimedMean == FDiv(SumOver(DefinedND, NDVals), Num(Cardinality(DefinedND)))

ClaimedVar ==
  LET N  == Cardinality(DefinedND)
      sx == SumOver(DefinedND, NDVals)
  IN  FDiv(FSub(FMul(Num(N), SumOver(DefinedND, NDSquares)), FMul(sx, sx)),
           Num(N * (N - 1)))

ConstantND ==
  \A i \in DefinedND : \A j \in DefinedND :
    Rows[i].net_dilution = Rows[j].net_dilution

\* (net_dilution - mean) / std of row i, as sign and square
ClaimedZ(i) ==
  IF isna(Rows[i].net_dilution) THEN RootNaN
  ELSE LET dev == FSub(Rows[i].net_dilution, ClaimedMean)
       IN  [s |-> Sign(dev.n), q |-> FDiv(FMul(dev, dev), ClaimedVar)]

ZscoreAsClaimed ==
  IF ConstantND \/ Cardinality(DefinedND) < 2
  THEN \A i \in 1..NRows : Rows[i].normalized_net_dilution = RootZero
  ELSE \A i \in 1..NRows : Rows[i].normalized_net_dilution = ClaimedZ(i)

\* C3: if net_dilution is constant over the rows where it is defined, or
\* fewer than 2 rows have it defined, normalized_net_dilution is exactly 0.0
\* on every row; otherwise each row's value is (net_dilution - mean) /
\* sample-std over the defined rows of the whole series.
C3_AsClaimed == HasNormalized => ZscoreAsClaimed

\* what C3 says of the series that hold no infinite net_dilution
C3_FiniteSeries ==
  (HasNormalized /\ \A i \in 1..NRows : ~IsInf(Rows[i].net_dilution))
    => ZscoreAsClaimed

\* z <= 1/20 and z >= 1/4 for z = s * sqrt(q.n / q.d)
AtMostLong(z) == z.s <= 0 \/ 400 * z.q.n <= z.q.d

AtLeastShort(z) == z.s = 1 /\ 16 * z.q.n >= z.q.d

\* C4: every position is -1, 0 or +1, and on a row with defined
\* net_dilution it is +1 iff normalized_net_dilution <= 0.05, -1 iff it is
\* >= 0.25, and 0 iff it is strictly between the two.
C4_PositionByThresholds ==
  pc = "signalled" =>
    \A i \in 1..NRows :
      LET z == Rows[i].normalized_net_dilution
      IN  /\ Rows[i].position \in {-1, 0, 1}
          /\ notna(Rows[i].net_dilution) =>
               /\ IsFinite(z.q)
               /\ Rows[i].position = 1 <=> AtMostLong(z)
               /\ Rows[i].position = -1 <=> AtLeastShort(z)
               /\ Rows[i].position = 0 <=> (~AtMostLong(z) /\ ~AtLeastShort(z))

\* a signalled series with a row exactly on the long threshold (long), a row
\* strictly between the thresholds (flat) and a row exactly on the short
\* threshold (short)
C4_Witness ==
  /\ pc = "signalled"
  /\ \E i \in 1..NRows :
       /\ Rows[i].normalized_net_dilution = [s |-> 1, q |-> Frac(1, 400)]
       /\ Rows[i].position = 1
  /\ \E i \in 1..NRows :
       /\ Rows[i].normalized_net_dilution = [s |-> 1, q |-> Frac(9, 400)]
       /\ Rows[i].position = 0
  /\ \E i \in 1..NRows :
       /\ Rows[i].normalized_net_dilution = [s |-> 1, q |-> Frac(1, 16)]
       /\ Rows[i].position = -1

\* C5: every row whose net_dilution is undefined gets position 0, whatever
\* its normalized_net_dilution is.
C5_UndefinedIsFlat ==
  pc = "signalled" =>
    \A i \in 1..NRows : isna(Rows[i].net_dilution) => Rows[i].position = 0

\* the degenerate-variance case: normalized_net_dilution is 0.0 on a row with
\* undefined net_dilution (flat) and on a row with defined net_dilution (long)
C5_Witness ==
  /\ pc = "signalled"
  /\ \E i \in 1..NRows :
       /\ isna(Rows[i].net_dilution)
       /\ Rows[i].normalized_net_dilution = RootZero
       /\ Rows[i].position = 0
  /\ \E i \in 1..NRows :
       /\ notna(Rows[i].net_dilution)
       /\ Rows[i].normalized_net_dilution = RootZero
       /\ Rows[i].position = 1

(* ---------------------------- C6 .. C10 -------------------------------- *)
ReturnCols == {"price_return", "strategy_return", "cumulative_market_return",
               "cumulative_strategy_return"}

\* the rows of the call's argument that carry a closing price
PricedArgRows == {j \in 1..Len(arg_in.rows) : notna(arg_in.rows[j].closing_price)}

ArgUnusable ==
  \/ "closing_price" \notin arg_in.cols
  \/ "position" \notin arg_in.cols
  \/ PricedArgRows = {}

\* C6: if the input lacks the closing_price or the position column, or no
\* row is left once the rows with a missing closing_price are dropped, the
\* call ends in an error and returns no table; a returned table is never
\* zero-row or partially computed.
C6_FailsWithoutTable ==
  /\ pc = "backtest_raised" =>
       /\ ArgUnusable
       /\ err # "none"
       /\ df = arg_in
       /\ df.cols \cap ReturnCols = {}
  /\ pc = "backtested" =>
       /\ ~ArgUnusable
       /\ err = "none"
       /\ NRows >= 1
       /\ ReturnCols \subseteq df.cols
       /\ \A i \in 1..NRows : ReturnCols \subseteq DOMAIN Rows[i]

\* both columns present, several rows, every closing_price missing
C6_Witness ==
  /\ pc = "backtest_raised"
  /\ {"closing_price", "position"} \subseteq arg_in.cols
  /\ Len(arg_in.rows) >= 2
  /\ PricedArgRows = {}

\* C7: the output holds exactly the input rows with a defined closing_price,
\* in ascending date order; price_return is undefined on the first row and on a
\* later row i it is closing_price[i] / closing_price[i-1] - 1 against the
\* preceding surviving row; strategy_return[i] = position[i] * price_return[i].
C7_RowsAndReturns ==
  pc = "backtested" =>
    /\ NRows = Cardinality(PricedArgRows)
    /\ \A i \in 1..(NRows - 1) : Rows[i].date < Rows[i + 1].date
    /\ \A i \in 1..NRows : \E j \in PricedArgRows :
         /\ arg_in.rows[j].date = Rows[i].date
         /\ arg_in.rows[j].closing_price = Rows[i].closing_price
         /\ arg_in.rows[j].position = Rows[i].position
    /\ \A i \in 1..NRows :
         IF i = 1
         THEN isna(Rows[i].price_return) /\ isna(Rows[i].strategy_return)
         ELSE /\ IsFinite(Rows[i].price_return)
              /\ FMul(FAdd(Rows[i].price_return, Num(1)), Rows[i - 1].closing_price)
                   = Rows[i].closing_price
              /\ Rows[i].strategy_return
                   = FMul(Num(Rows[i].position), Rows[i].price_return)

\* an unsorted input whose middle period has no closing price: the return of
\* the last row is taken against the first, under its own position
C7_Witness ==
  /\ pc = "backtested"
  /\ Len(arg_in.rows) = 3
  /\ arg_in.rows[1].date > arg_in.rows[2].date
  /\ NRows = 2
  /\ Rows[1].date = 1 /\ Rows[2].date = 3
  /\ Rows[1].position = 1 /\ Rows[2].position = -1
  /\ Rows[1].closing_price = Num(100) /\ Rows[2].closing_price = Num(110)
  /\ Rows[2].price_return = Frac(1, 10)
  /\ Rows[2].strategy_return = Frac(-1, 10)

\* C8: cumulative_market_return and cumulative_strategy_return compound
\* 1 + return from the first row on, an undefined return counting as 0, minus
\* 1: both are 0 on the first row and defined on every row, and
\* cumulative_market_return[i] = closing_price[i] / closing_price[0] - 1;
\* prices [100, 110, 99] give [0, 0.10, -0.01].
C8_Compounding ==
  pc = "backtested" =>
    /\ \A i \in 1..NRows :
         /\ IsFinite(Rows[i].cumulative_market_return)
         /\ IsFinite(Rows[i].cumulative_strategy_return)
         /\ FMul(FAdd(Rows[i].cumulative_market_return, Num(1)), Rows[1].closing_price)
              = Rows[i].closing_price
         /\ IF i = 1
            THEN /\ Rows[i].cumulative_market_return = Num(0)
                 /\ Rows[i].cumulative_strategy_return = Num(0)
            ELSE /\ FAdd(Rows[i].cumulative_market_return, Num(1))
                      = FMul(FAdd(Rows[i - 1].cumulative_market_return, Num(1)),
                             FAdd(Rows[i].price_return, Num(1)))
                 /\ FAdd(Rows[i].cumulative_strategy_return, Num(1))
                      = FMul(FAdd(Rows[i - 1].cumulative_strategy_return, Num(1)),
                             FAdd(Rows[i].strategy_return, Num(1)))
    /\ [i \in 1..NRows |-> Rows[i].closing_price] = <<Num(100), Num(110), Num(99)>>
         => /\ [i \in 1..NRows |-> Rows[i].price_return]
                 = <<NaN, Frac(1, 10), Frac(-1, 10)>>
            /\ [i \in 1..NRows |-> Rows[i].cumulative_market_return]
                 = <<Num(0), Frac(1, 10), Frac(-1, 100)>>

\* the example prices, held short, then long
C8_Witness ==
  /\ pc = "backtested"
  /\ [i \in 1..NRows |-> Rows[i].closing_price] = <<Num(100), Num(110), Num(99)>>
  /\ [i \in 1..NRows |-> Rows[i].position] = <<0, -1, 1>>
  /\ Rows[3].cumulative_market_return = Frac(-1, 100)
  /\ Rows[3].cumulative_strategy_return = Frac(-19, 100)

AllLong == \A j \in 1..Len(arg_in.rows) : arg_in.rows[j].position = 1

\* C9: if position is 1 on every row of the input, cumulative_strategy_return
\* equals cumulative_market_return on every output row.
C9_AllLongTracksMarket ==
  (pc = "backtested" /\ AllLong) =>
    \A i \in 1..NRows :
      Rows[i].cumulative_strategy_return = Rows[i].cumulative_market_return

\* an all-long input with a dropped row and a market that has moved
C9_Witness ==
  /\ pc = "backtested"
  /\ AllLong
  /\ Len(arg_in.rows) = 3
  /\ NRows = 2
  /\ Rows[2].cumulative_market_return = Frac(1, 10)
  /\ Rows[2].cumulative_strategy_return = Frac(1, 10)

\* the 1-based rows of df_sorted that the entries of one side were taken from
EntryRows(entries) == {entries[k].index + 1 : k \in 1..Len(entries)}

PositionSeq == [i \in 1..NRows |-> Rows[i].position]

EntriesOk(entries, side) ==
  /\ Len(entries) = Cardinality(EntryRows(entries))
  /\ \A k \in 1..(Len(entries) - 1) : entries[k].index < entries[k + 1].index
  /\ \A i \in 1..NRows :
       i \in EntryRows(entries) <=>
         /\ Rows[i].position = side
         /\ i > 1
         /\ notna(Rows[i - 1].cumulative_strategy_return)
         /\ Rows[i - 1].position # side
  /\ 1 \notin EntryRows(entries)
  \* an event carries the date and the cumulative return of the row before it
  /\ \A k \in 1..Len(entries) :
       LET i == entries[k].index + 1
       IN  /\ entries[k].date_dt_prev = Rows[i - 1].date_dt
           /\ entries[k].cumulative_strategy_return_prev
                = Rows[i - 1].cumulative_strategy_return
           /\ entries[k].date_dt = Rows[i].date_dt
  \* a run of rows a..b holding this side has one event, at a, unless a is
  \* the first row
  /\ \A a \in 1..NRows : \A b \in a..NRows :
       (/\ \A i \in a..b : Rows[i].position = side
        /\ a = 1 \/ Rows[a - 1].position # side
        /\ b = NRows \/ Rows[b + 1].position # side)
       => EntryRows(entries) \cap (a..b) = IF a = 1 THEN {} ELSE {a}

\* C10: over the rows in ascending date order, row i is a long-entry event
\* iff position[i] = 1, a preceding row exists with a defined
\* cumulative_strategy_return, and position[i-1] # 1 (short entries alike with
\* -1); the first row is never an event, a run of equal positions has its one
\* event at its first row, and an event carries the date and cumulative return
\* of row i-1.  Positions [0, 0, 1, 1, 0, -1] give one long entry at index 2
\* referencing index 1 and one short entry at index 5 referencing index 4.
C10_EntryEvents ==
  pc = "plotted" =>
    /\ \A i \in 1..(NRows - 1) : Rows[i].date_dt < Rows[i + 1].date_dt
    /\ EntriesOk(long_entries, 1)
    /\ EntriesOk(short_entries, -1)
    /\ PositionSeq = <<0, 0, 1, 1, 0, -1>> =>
         /\ Len(long_entries) = 1
         /\ long_entries[1].index = 2
         /\ long_entries[1].date_dt_prev = Rows[2].date_dt
         /\ long_entries[1].cumulative_strategy_return_prev
              = Rows[2].cumulative_strategy_return
         /\ Len(short_entries) = 1
         /\ short_entries[1].index = 5
         /\ short_entries[1].date_dt_prev = Rows[5].date_dt
         /\ short_entries[1].cumulative_strategy_return_prev
              = Rows[5].cumulative_strategy_return

\* the scenario of the claim, with the long entry's own row and the row it
\* references holding different cumulative returns
C10_Witness ==
  /\ pc = "plotted"
  /\ PositionSeq = <<0, 0, 1, 1, 0, -1>>
  /\ Len(long_entries) = 1
  /\ Len(short_entries) = 1
  /\ Rows[3].cumulative_strategy_return # Rows[2].cumulative_strategy_return
  /\ long_entries[1].cumulative_strategy_return_prev = Num(0)
  /\ short_entries[1].cumulative_strategy_return_prev
       = Rows[5].cumulative_strategy_return

(* ------------------------------- C11 ----------------------------------- *)
\* a stage has been called and has returned or raised;
\* plot_performance_comparison has gone through its entry/exit detection
Called ==
  pc \in {"aggregated", "net_dilution", "normalize", "signals", "signalled",
          "backtested", "backtest_raised", "plotted"}

\* a stage has returned its table in df
Returned ==
  pc \in {"aggregated", "net_dilution", "normalize", "signals", "signalled",
          "backtested"}

\* the caller's table has the same columns, rows, row order and values as
\* before the call
ArgUntouched ==
  /\ arg_out.cols = arg_in.cols
  /\ Len(arg_out.rows) = Len(arg_in.rows)
  /\ \A i \in 1..Len(arg_in.rows) : arg_out.rows[i] = arg_in.rows[i]

\* the returned table keeps every column of the argument
Augmented == arg_in.cols \subseteq df.cols

\* C11: no stage mutates the table it is given: after any call of
\* compute_ttm_sbc_and_repurchase, compute_market_cap, compute_net_dilution,
\* zscore_normalize_net_dilution, generate_signals,
\* calculate_strategy_returns, or the entry/exit detection of
\* plot_performance_comparison, the caller's table has the same columns,
\* rows, row order and values as before the call, and the result is a
\* separate augmented copy.
C11_AsClaimed ==
  /\ Called => ArgUntouched
  /\ Returned => Augmented

\* what C11 says of the six stages that return a table
C11_ReturningStages ==
  /\ (Returned \/ pc = "backtest_raised") => ArgUntouched
  /\ Returned => Augmented

\* plot_performance_comparison leaves the caller's table with every row's
\* earlier cells in place and one more column, date_dt
C11_PlotAddsDateDt ==
  pc \in {"plotted", "plot_raised"} =>
    /\ arg_out.cols = arg_in.cols \cup {"date_dt"}
    /\ "date_dt" \notin arg_in.cols
    /\ Len(arg_out.rows) = Len(arg_in.rows)
    /\ \A i \in 1..Len(arg_in.rows) :
         /\ \A c \in DOMAIN arg_in.rows[i] :
              arg_out.rows[i][c] = arg_in.rows[i][c]
         /\ arg_out.rows[i].date_dt = to_datetime(arg_in.rows[i].date)

(* ------------------------------- C12 ----------------------------------- *)
\* the net_dilution variance is zero or undefined: the defined values are
\* all equal, or fewer than 2 rows are defined, or a defined value is
\* infinite
DegenerateND ==
  \/ ConstantND
  \/ Cardinality(DefinedND) < 2
  \/ \E i \in DefinedND : IsInf(Rows[i].net_dilution)

AllFlat == \A i \in 1..NRows : Rows[i].position = 0

====
